---- MODULE Spec2Model ----
(***************************************************************************)
(* State-machine model of the chat server of jumaar/clase-final-nodejs.     *)
(*                                                                         *)
(* Three server files exist in the repository and are modelled as three    *)
(* values of the variable `build`:                                         *)
(*   "index"   src/index.js          (JWT middleware, delete handler        *)
(*                                    registered before the recovery block) *)
(*   "part000" src/unnamed/part_000  (same, but the delete handler is       *)
(*                                    registered after the recovery block)  *)
(*   "server"  src/server/index.js   (no middleware, no delete handler,     *)
(*                                    author read from handshake.auth)      *)
(*                                                                         *)
(* Every `await` on the MongoDB driver is a suspension point: the handler   *)
(* issues the operation, the storage applies it at some later step, and the *)
(* handler resumes at a still later step.  Handlers of different events     *)
(* (and of the same socket) interleave freely at these points.              *)
(*                                                                         *)
(* An ObjectId is generated by the driver inside the insertOne call from a  *)
(* process-wide increasing counter; it is modelled as a natural number      *)
(* taken from the counter `index` (1, 2, 3, ...).  0 is the client's        *)
(* initial serverOffset (src/public/js/chat.js:19).                         *)
(*                                                                         *)
(* `inbox` records, per socket, the events the server has emitted to it     *)
(* since its handshake; the field `via` of an event tells io.emit ("io")    *)
(* from socket.emit ("socket").  Ended handler runs stay in chatTasks and   *)
(* deleteTasks with their outcome as `pc`.  The redelivery that socket.io   *)
(* itself performs for a resumed session is transport behaviour and is not  *)
(* modelled.                                                               *)
(*                                                                         *)
(* Spec, SpecPart000 and SpecServer are the three builds, with clients that  *)
(* may send anything a socket.io client can send.  In SpecChatJs the server *)
(* is src/index.js and every client is a browser running                    *)
(* src/public/js/chat.js: its handshakes carry the browser's cookie jar and *)
(* the serverOffset chat.js keeps, and the HTTP routes /login, /register    *)
(* and /logout change the jar.  An event emitted to a registered socket is  *)
(* taken to be received by its client at once.  SpecUsers is the HTTP side  *)
(* of src/index.js alone: POST /register and POST /login over               *)
(* src/user-repository.js, each suspended at its bcrypt await.              *)
(***************************************************************************)
EXTENDS Integers, Sequences, FiniteSets, TLC

\* ------------------------------------------------------------------ bounds
\* Number of client events (handshakes, 'chat message', 'delete message') in a run.
MaxEvents == 4

\* ------------------------------------------------------------- value sets
SocketIds == {"s1", "s2"}
Users == {"alice", "bob"}
Contents == {"hi", ""}

NoUser == "undefined"
NoTime == -1
BadId == -1

\* SECRET_JWT_KEY of config.js, and a key that is not it
SECRET_JWT_KEY == "this-is-an-awesome-secret-key-mucho-mas-largo-y-muy-seguro"
OtherKey == "attacker-key"

Token(u, k, e) == [username |-> u, key |-> k, expired |-> e]
Cookie(n, v) == [name |-> n, value |-> v]
Garbage == Token(NoUser, "none", FALSE)

\* The Cookie request headers a client may present at handshake, each the
\* list of its `name=value` parts in order (<<>>: no Cookie header).
CookieHeaders ==
  { <<>>,
    << Cookie("theme", Garbage) >>,
    << Cookie("access_token", Token("alice", SECRET_JWT_KEY, FALSE)) >>,
    << Cookie("theme", Garbage), Cookie("access_token", Token("bob", SECRET_JWT_KEY, FALSE)) >>,
    << Cookie("access_token", Token("alice", OtherKey, FALSE)) >>,
    << Cookie("access_token", Token("bob", SECRET_JWT_KEY, TRUE)) >>,
    << Cookie("access_token", Garbage), Cookie("access_token", Token("alice", SECRET_JWT_KEY, FALSE)) >> }


VARIABLES
  build,               \* which server file is running
  sockets,             \* per client slot: the server-side socket object
  messagesCollection,  \* the 'messages' collection, in storage (natural) order
  index,               \* the driver's ObjectId counter (last id handed out)
  clock,               \* wall clock read by `new Date()` (advances with every message event)
  chatTasks,           \* the 'chat message' handler runs, suspended or ended
  deleteTasks,         \* the 'delete message' handler runs, suspended or ended
  inbox,               \* per client slot: events emitted to its connection since its handshake
  events,              \* number of client events so far
  clients,             \* per client slot: the browser (cookie jar, chat.js state)
  User,                \* the 'User' collection of db-local, in insertion order
  requests             \* the POST /register and POST /login runs, suspended or ended

vars == << build, sockets, messagesCollection, index, clock, chatTasks, deleteTasks,
           inbox, events, clients, User, requests >>

\* handshake.auth.username as a client may send it: a name, or nothing.  Only
\* src/server/index.js reads it; for the other builds one value stands for all.
AuthUsernames == IF build = "server" THEN {"bob", NoUser} ELSE {"bob"}

\* handshake.auth.serverOffset as a client may send it: 0 (the initial value of
\* chat.js), an id handed out so far, or a string that is no ObjectId.
Offsets == (0..index) \cup {BadId}

\* The argument of 'delete message': an id handed out so far, or a string that
\* is no ObjectId.
MessageIds == (1..index) \cup {BadId}

\* --------------------------------------------------------------- helpers
Min(S) == CHOOSE x \in S : \A y \in S : x <= y

Range(s) == { s[i] : i \in DOMAIN s }

\* The rows of set S (pairwise distinct ids) as a sequence in ascending id order.
RECURSIVE SortById(_)
SortById(S) ==
  IF S = {} THEN <<>>
  ELSE LET m == CHOOSE r \in S : \A q \in S : r.id <= q.id
       IN  << m >> \o SortById(S \ {m})

NewSocket ==
  [ state |-> "new", user |-> NoUser, cookie |-> <<>>, authUsername |-> NoUser,
    recovered |-> FALSE, offset |-> 0, replay |-> "none", rows |-> <<>>,
    deleteHandler |-> FALSE, conn |-> 0, had |-> {} ]

Open == { c \in SocketIds : sockets[c].state = "open" }

ChatEvent(content, id, user, timestamp, via) ==
  [ type |-> "chat message", content |-> content, id |-> id, user |-> user,
    timestamp |-> timestamp, via |-> via ]

DeletedEvent(id) ==
  [ type |-> "message deleted", content |-> "", id |-> id, user |-> NoUser,
    timestamp |-> NoTime, via |-> "io" ]

\* ------------------------------------------------------------ middleware
\* jwt.verify(token, SECRET_JWT_KEY): the payload when the signature was made
\* with the key and the token has not expired, an exception otherwise.
JwtVerify(token, key) ==
  IF token.key = key /\ ~token.expired
  THEN [ ok |-> TRUE, user |-> token.username ]
  ELSE [ ok |-> FALSE, user |-> NoUser ]

\* Mutant of IoUse: the token is decoded but its signature and expiry are not verified.
IoUse_NoVerify(cookies) ==
  IF cookies = <<>>
  THEN [ ok |-> FALSE, user |-> NoUser ]
  ELSE LET found == { i \in DOMAIN cookies : cookies[i].name = "access_token" }
       IN  IF found = {}
           THEN [ ok |-> FALSE, user |-> NoUser ]
           ELSE [ ok |-> TRUE, user |-> cookies[Min(found)].value.username ]

\* io.use((socket, next) => ...): the identity bound to the socket, or a rejection.
IoUse(cookies) ==
  IF cookies = <<>>
  THEN [ ok |-> FALSE, user |-> NoUser ]
  ELSE LET found == { i \in DOMAIN cookies : cookies[i].name = "access_token" }
       IN  IF found = {}
           THEN [ ok |-> FALSE, user |-> NoUser ]
           ELSE JwtVerify(cookies[Min(found)].value, SECRET_JWT_KEY)

\* What the handshake binds to socket.user in each build (src/server/index.js
\* installs no middleware: every connection is accepted, socket.user stays unset).
Bind(cookies) ==
  IF build = "server" THEN [ ok |-> TRUE, user |-> NoUser ] ELSE IoUse(cookies)

\* Mutant of RunsRecovery: the recovery block runs on every connection.
RunsRecovery_Always(recovered) == TRUE

\* `if (!socket.recovered)`: whether the connection callback runs the recovery block.
RunsRecovery(recovered) == ~recovered

\* ---------------------------------------------------------------- emitters
\* Mutant of IoEmit: the event reaches a single connected socket.
IoEmit_OneSocket(inb, ev) ==
  [ c \in SocketIds |->
      IF c \in Open /\ c = (CHOOSE d \in Open : TRUE) THEN Append(inb[c], ev) ELSE inb[c] ]

\* io.emit(event): one event to every connected socket.
IoEmit(inb, ev) ==
  [ c \in SocketIds |-> IF c \in Open THEN Append(inb[c], ev) ELSE inb[c] ]

\* Mutant of SocketEmit: the rows are emitted to every connected socket.
SocketEmit_ToAll(inb, c, evs) ==
  [ d \in SocketIds |-> IF d \in Open THEN inb[d] \o evs ELSE inb[d] ]

\* socket.emit(event) for each row, to this socket alone.
SocketEmit(inb, c, evs) ==
  [ inb EXCEPT ![c] = @ \o evs ]

\* ------------------------------------------------------------------ clients
\* A client about which nothing is assumed: its handshakes carry any header
\* and any offset, and the model keeps no state for it.
AnyClient ==
  [ tracked |-> FALSE, jar |-> <<>>, serverOffset |-> 0, seen |-> {}, gone |-> {} ]

\* A browser that has just loaded the chat page with cookie jar `jar`:
\* socket.auth.serverOffset is 0 and nothing has been received.
ChatJs(jar) ==
  [ tracked |-> TRUE, jar |-> jar, serverOffset |-> 0, seen |-> {}, gone |-> {} ]

\* The cookie jars a browser may hold: empty, or the cookie set by /login or
\* /register for a user.
Jars ==
  { <<>> } \cup { << Cookie("access_token", Token(u, SECRET_JWT_KEY, FALSE)) >> : u \in Users }

\* chat.js socket.on('chat message'): the message is appended to the list on
\* the page and socket.auth.serverOffset becomes the id of the event (`seen`:
\* the ids of the messages on the page).
OnChatMessage(cl, ev) ==
  [ cl EXCEPT !.serverOffset = ev.id, !.seen = @ \cup { ev.id } ]

\* chat.js registers no handler for 'message deleted': the page is left as it
\* is (`gone` only records the ids whose event reached the client).
OnMessageDeleted(cl, ev) ==
  [ cl EXCEPT !.gone = @ \cup { ev.id } ]

\* The client after the events evs, in order.
RECURSIVE OnEvents(_, _)
OnEvents(cl, evs) ==
  IF evs = <<>> THEN cl
  ELSE OnEvents(IF Head(evs).type = "chat message"
                THEN OnChatMessage(cl, Head(evs))
                ELSE OnMessageDeleted(cl, Head(evs)),
                Tail(evs))

\* The clients after the server has emitted the events that take the sockets'
\* event sequences from inbox to inb.
Receive(inb) ==
  [ c \in SocketIds |->
      IF clients[c].tracked
      THEN OnEvents(clients[c], SubSeq(inb[c], Len(inbox[c]) + 1, Len(inb[c])))
      ELSE clients[c] ]

\* ------------------------------------------------------------------ storage
\* Mutant of Find: the non-empty query uses $gte.
Find_Gte(offset, coll) ==
  IF offset = 0
  THEN coll
  ELSE SortById({ r \in Range(coll) : r.id >= offset })

\* messagesCollection.find(query).toArray() for the query the recovery block
\* builds: {} when serverOffset is falsy (a collection scan, rows in natural
\* order), { _id: { $gt: ObjectId(serverOffset) } } otherwise (a scan of the
\* _id index, rows in ascending _id order).
Find(offset, coll) ==
  IF offset = 0
  THEN coll
  ELSE SortById({ r \in Range(coll) : r.id > offset })

\* Mutant of FindOne: the filter is dropped, any record of the collection matches.
FindOne_Any(id, coll) == Range(coll)

\* messagesCollection.findOne({ _id }): the set holding the record, or {}.
FindOne(id, coll) == { r \in Range(coll) : r.id = id }

\* Mutant of DeleteOne: the record is left in the collection.
DeleteOne_Keeps(id, coll) == coll

\* Mutant of DeleteOne: the record is kept and its content blanked (a soft delete).
DeleteOne_Tombstone(id, coll) ==
  [ i \in DOMAIN coll |->
      IF coll[i].id = id THEN [ coll[i] EXCEPT !.content = "" ] ELSE coll[i] ]

\* messagesCollection.deleteOne({ _id })
DeleteOne(id, coll) == SelectSeq(coll, LAMBDA r : r.id # id)

\* Mutant of MayDelete: the `message &&` test is dropped.
MayDelete_NoExistCheck(found, user) == \A m \in found : m.user = user

\* Mutant of MayDelete: only the existence of the message is checked.
MayDelete_NoOwnerCheck(found, user) == found # {}

\* `message && message.user === socket.user.username`
MayDelete(found, user) == \E m \in found : m.user = user

\* The author written into a new message record.
Author(c) ==
  IF build = "server"
  THEN IF sockets[c].authUsername = NoUser THEN "anonymous" ELSE sockets[c].authUsername
  ELSE sockets[c].user

\* The timestamp written into a new message record (none in src/server/index.js).
Timestamp == IF build = "server" THEN NoTime ELSE clock

\* Mutant of RowEvents: the replayed event leaves the timestamp out.
RowEvents_NoTimestamp(rows) ==
  [ i \in DOMAIN rows |->
      ChatEvent(rows[i].content, rows[i].id, rows[i].user, NoTime, "socket") ]

\* The events of the recovery block's socket.emit calls, one per row, in order.
RowEvents(rows) ==
  [ i \in DOMAIN rows |->
      ChatEvent(rows[i].content, rows[i].id, rows[i].user, rows[i].timestamp, "socket") ]

\* -------------------------------------------------------------------- Init
InitCommon ==
  /\ sockets = [ c \in SocketIds |-> NewSocket ]
  /\ messagesCollection = <<>>
  /\ index = 0
  /\ clock = 0
  /\ chatTasks = {}
  /\ deleteTasks = {}
  /\ inbox = [ c \in SocketIds |-> <<>> ]
  /\ events = 0
  /\ User = <<>>
  /\ requests = {}

Init ==
  /\ build = "index" /\ InitCommon
  /\ clients = [ c \in SocketIds |-> AnyClient ]

InitPart000 ==
  /\ build = "part000" /\ InitCommon
  /\ clients = [ c \in SocketIds |-> AnyClient ]

InitServer ==
  /\ build = "server" /\ InitCommon
  /\ clients = [ c \in SocketIds |-> AnyClient ]

InitChatJs ==
  /\ build = "index" /\ InitCommon
  /\ clients \in [ SocketIds -> { ChatJs(j) : j \in Jars } ]

\* ----------------------------------------------------------------- actions
\* A connection attempt: io.use, then (when accepted) the synchronous part of
\* the io.on('connection') callback, up to its first await.  `conn` names the
\* connection (the number of accepted handshakes of the client slot so far),
\* `had` the messages on the client's page when it connected.  A chat.js client
\* sends its cookie jar and its socket.auth.serverOffset; its resumed sessions
\* are left out, the transport's own redelivery not being modelled.
Handshake(c, cookies, authUsername, recovered, offset) ==
  /\ events < MaxEvents
  /\ sockets[c].state # "open"
  /\ recovered => sockets[c].state = "closed"
  /\ clients[c].tracked =>
       /\ cookies = clients[c].jar
       /\ offset = clients[c].serverOffset
       /\ ~recovered
  /\ events' = events + 1
  /\ LET auth == Bind(cookies)
         awaits == RunsRecovery(recovered) /\ offset # BadId
     IN  IF ~auth.ok
         THEN /\ sockets' = [ sockets EXCEPT ![c] =
                     [ NewSocket EXCEPT !.state = "rejected", !.conn = sockets[c].conn ] ]
              /\ inbox' = [ inbox EXCEPT ![c] = <<>> ]
         ELSE /\ sockets' = [ sockets EXCEPT ![c] =
                     [ state |-> "open", user |-> auth.user, cookie |-> cookies,
                       authUsername |-> authUsername, recovered |-> recovered,
                       offset |-> offset,
                       replay |-> IF ~RunsRecovery(recovered) THEN "none"
                                  ELSE IF offset = BadId THEN "failed" ELSE "query",
                       rows |-> <<>>,
                       deleteHandler |-> (build = "index") \/ (build = "part000" /\ ~awaits),
                       conn |-> sockets[c].conn + 1,
                       had |-> clients[c].seen ] ]
              /\ inbox' = [ inbox EXCEPT ![c] = <<>> ]
  /\ UNCHANGED << User, requests, clients, build, messagesCollection, index, clock, chatTasks, deleteTasks >>

\* Transport close.  The closed socket's recovery block can no longer be
\* observed (socket.emit on a closed socket is discarded), so it is dropped;
\* its chat and delete handlers keep running.
Disconnect(c) ==
  /\ sockets[c].state = "open"
  /\ sockets' = [ sockets EXCEPT ![c] =
                    [ NewSocket EXCEPT !.state = "closed", !.conn = sockets[c].conn ] ]
  /\ inbox' = [ inbox EXCEPT ![c] = <<>> ]
  /\ UNCHANGED << User, requests, clients, build, messagesCollection, index, clock, chatTasks, deleteTasks,
                  events >>

\* socket.on('chat message'): builds the record and calls insertOne, which
\* assigns _id and suspends the handler.
ChatMessage(c, msg) ==
  /\ c \in Open
  /\ events < MaxEvents
  /\ events' = events + 1
  /\ index' = index + 1
  /\ chatTasks' = chatTasks \cup
       { [ pc |-> "insertOne", socket |-> c, conn |-> sockets[c].conn,
           identity |-> sockets[c].user,
           message |-> [ id |-> index + 1, content |-> msg, user |-> Author(c),
                         timestamp |-> Timestamp ] ] }
  /\ clock' = clock + 1
  /\ UNCHANGED << User, requests, clients, build, sockets, messagesCollection, deleteTasks, inbox >>

\* The storage performs a pending insert.
StorageInsert(t) ==
  /\ t \in chatTasks /\ t.pc = "insertOne"
  /\ messagesCollection' = Append(messagesCollection, t.message)
  /\ chatTasks' = (chatTasks \ {t}) \cup { [ t EXCEPT !.pc = "inserted" ] }
  /\ UNCHANGED << User, requests, clients, build, sockets, index, clock, deleteTasks, inbox, events >>

\* Mutant of StorageInsertFail: the catch block broadcasts the message all the same.
StorageInsertFail_Broadcasts(t) ==
  /\ t \in chatTasks /\ t.pc = "insertOne"
  /\ chatTasks' = (chatTasks \ {t}) \cup { [ t EXCEPT !.pc = "failed" ] }
  /\ inbox' = IoEmit(inbox, ChatEvent(t.message.content, t.message.id, t.message.user,
                                      t.message.timestamp, "io"))
  /\ clients' = Receive(inbox')
  /\ UNCHANGED << User, requests, build, sockets, messagesCollection, index, clock, deleteTasks,
                  events >>

\* The insert fails: the catch block logs, nothing else happens.
StorageInsertFail(t) ==
  /\ t \in chatTasks /\ t.pc = "insertOne"
  /\ chatTasks' = (chatTasks \ {t}) \cup { [ t EXCEPT !.pc = "failed" ] }
  /\ UNCHANGED << User, requests, clients, build, sockets, messagesCollection, index, clock, deleteTasks,
                  inbox, events >>

\* The handler resumes after insertOne: io.emit('chat message', ...).
ChatBroadcast(t) ==
  /\ t \in chatTasks /\ t.pc = "inserted"
  /\ inbox' = IoEmit(inbox, ChatEvent(t.message.content, t.message.id, t.message.user,
                                      t.message.timestamp, "io"))
  /\ chatTasks' = (chatTasks \ {t}) \cup { [ t EXCEPT !.pc = "done" ] }
  /\ clients' = Receive(inbox')
  /\ UNCHANGED << User, requests, build, sockets, messagesCollection, index, clock, deleteTasks,
                  events >>

\* socket.on('delete message'): new ObjectId(messageId) (throws on a malformed
\* id, caught), then findOne suspends the handler.  `afterDone` records whether
\* a request for the same id had already run to its end when this one arrived.
\* An event that arrives before socket.on('delete message') has been called
\* finds no listener and is dropped ("unhandled").
DeleteMessage(c, messageId) ==
  /\ c \in Open
  /\ events < MaxEvents
  /\ events' = events + 1
  /\ deleteTasks' =
       deleteTasks \cup
         { [ pc |-> IF ~sockets[c].deleteHandler THEN "unhandled"
                    ELSE IF messageId = BadId THEN "failed" ELSE "findOne",
             req |-> events + 1, user |-> sockets[c].user, messageId |-> messageId,
             afterDone |-> \E d \in deleteTasks :
                              d.messageId = messageId /\ d.pc = "done" ] }
  /\ UNCHANGED << User, requests, clients, build, sockets, messagesCollection, index, clock, chatTasks,
                  inbox >>

\* findOne is answered and the handler resumes: it calls deleteOne when the
\* message exists and is the requester's, and only logs otherwise.
DeleteLookup(t) ==
  /\ t \in deleteTasks /\ t.pc = "findOne"
  /\ deleteTasks' =
       IF MayDelete(FindOne(t.messageId, messagesCollection), t.user)
       THEN (deleteTasks \ {t}) \cup { [ t EXCEPT !.pc = "deleteOne" ] }
       ELSE (deleteTasks \ {t}) \cup { [ t EXCEPT !.pc = "rejected" ] }
  /\ UNCHANGED << User, requests, clients, build, sockets, messagesCollection, index, clock, chatTasks,
                  inbox, events >>

\* The storage performs a pending deleteOne.
StorageDelete(t) ==
  /\ t \in deleteTasks /\ t.pc = "deleteOne"
  /\ messagesCollection' = DeleteOne(t.messageId, messagesCollection)
  /\ deleteTasks' = (deleteTasks \ {t}) \cup { [ t EXCEPT !.pc = "deleted" ] }
  /\ UNCHANGED << User, requests, clients, build, sockets, index, clock, chatTasks, inbox, events >>

\* findOne or deleteOne fails: the catch block logs, nothing else happens.
DeleteFail(t) ==
  /\ t \in deleteTasks /\ t.pc \in {"findOne", "deleteOne"}
  /\ deleteTasks' = (deleteTasks \ {t}) \cup { [ t EXCEPT !.pc = "failed" ] }
  /\ UNCHANGED << User, requests, clients, build, sockets, messagesCollection, index, clock, chatTasks,
                  inbox, events >>

\* The handler resumes after deleteOne: io.emit('message deleted', messageId).
DeleteBroadcast(t) ==
  /\ t \in deleteTasks /\ t.pc = "deleted"
  /\ inbox' = IoEmit(inbox, DeletedEvent(t.messageId))
  /\ deleteTasks' = (deleteTasks \ {t}) \cup { [ t EXCEPT !.pc = "done" ] }
  /\ clients' = Receive(inbox')
  /\ UNCHANGED << User, requests, build, sockets, messagesCollection, index, clock, chatTasks,
                  events >>

\* The storage answers the recovery block's find(query).toArray().
ReplayQuery(c) ==
  /\ c \in Open /\ sockets[c].replay = "query"
  /\ sockets' = [ sockets EXCEPT ![c].replay = "results",
                                 ![c].rows = Find(sockets[c].offset, messagesCollection) ]
  /\ UNCHANGED << User, requests, clients, build, messagesCollection, index, clock, chatTasks, deleteTasks,
                  inbox, events >>

\* Mutant of ReplayFail: the catch block reports the error to the client.
ReplayFail_EmitsError(c) ==
  /\ c \in Open /\ sockets[c].replay = "query"
  /\ sockets' = [ sockets EXCEPT ![c].replay = "failed",
                                 ![c].deleteHandler = (build # "server") ]
  /\ inbox' = SocketEmit(inbox, c,
                 << [ type |-> "error", content |-> "", id |-> BadId, user |-> NoUser,
                      timestamp |-> NoTime, via |-> "socket" ] >>)
  /\ clients' = Receive(inbox')
  /\ UNCHANGED << User, requests, build, messagesCollection, index, clock, chatTasks, deleteTasks,
                  events >>

\* The query fails: the catch block logs; the callback runs on to its end.
ReplayFail(c) ==
  /\ c \in Open /\ sockets[c].replay = "query"
  /\ sockets' = [ sockets EXCEPT ![c].replay = "failed",
                                 ![c].deleteHandler = (build # "server") ]
  /\ UNCHANGED << User, requests, clients, build, messagesCollection, index, clock, chatTasks, deleteTasks,
                  inbox, events >>

\* The recovery block resumes: results.forEach(row => socket.emit(...)); the
\* callback then runs on to its end.
ReplayDeliver(c) ==
  /\ c \in Open /\ sockets[c].replay = "results"
  /\ inbox' = SocketEmit(inbox, c, RowEvents(sockets[c].rows))
  /\ sockets' = [ sockets EXCEPT ![c].replay = "done", ![c].rows = <<>>,
                                 ![c].deleteHandler = (build # "server") ]
  /\ clients' = Receive(inbox')
  /\ UNCHANGED << User, requests, build, messagesCollection, index, clock, chatTasks, deleteTasks,
                  events >>

\* Mutant of Logout: the route also unbinds the identity of the browser's socket.
Logout_Unbinds(c) ==
  /\ clients[c].tracked
  /\ events < MaxEvents
  /\ events' = events + 1
  /\ clients' = [ clients EXCEPT ![c].jar = <<>> ]
  /\ sockets' = [ sockets EXCEPT ![c].user = NoUser ]
  /\ UNCHANGED << User, requests, build, messagesCollection, index, clock, chatTasks, deleteTasks,
                  inbox >>

\* POST /logout from a browser: res.clearCookie('access_token').
Logout(c) ==
  /\ clients[c].tracked
  /\ events < MaxEvents
  /\ events' = events + 1
  /\ clients' = [ clients EXCEPT ![c].jar = <<>> ]
  /\ UNCHANGED << User, requests, build, sockets, messagesCollection, index, clock, chatTasks,
                  deleteTasks, inbox >>

\* A successful POST /login or POST /register from a browser, for user u:
\* res.cookie('access_token', jwt.sign({ id, username }, SECRET_JWT_KEY, ...)).
Login(c, u) ==
  /\ clients[c].tracked
  /\ events < MaxEvents
  /\ events' = events + 1
  /\ clients' = [ clients EXCEPT ![c].jar =
                    << Cookie("access_token", Token(u, SECRET_JWT_KEY, FALSE)) >> ]
  /\ UNCHANGED << User, requests, build, sockets, messagesCollection, index, clock, chatTasks,
                  deleteTasks, inbox >>

\* ---------------------------------------------------------- user repository
\* Values of req.body.username and req.body.password: strings, or a number.
Str(text) == [ kind |-> "string", text |-> text ]
Num == [ kind |-> "number", text |-> "42" ]

BodyUsernames == { Str("alice"), Str("bob"), Str("al"), Num }
BodyPasswords == { Str("secret"), Str("hunter22"), Str("12345"), Num }

NoCookie == [ username |-> NoUser, key |-> "none", expired |-> FALSE ]
Response(status, cookie) == [ status |-> status, cookie |-> cookie ]
NoResponse == Response(0, NoCookie)

\* Mutant of ValidationUsername: the length test is `< 2`.
ValidationUsername_Min2(username) ==
  username.kind = "string" /\ Len(username.text) >= 2

\* Validation.username: passes for a string of at least 3 characters.
ValidationUsername(username) ==
  username.kind = "string" /\ Len(username.text) >= 3

\* Validation.password: passes for a string of at least 6 characters.
ValidationPassword(password) ==
  password.kind = "string" /\ Len(password.text) >= 6

\* bcrypt.hash(password, SALT_ROUND)
BcryptHash(password) == [ bcrypt |-> password.text ]

\* Mutant of BcryptCompare: every password is accepted.
BcryptCompare_Always(password, hash) == TRUE

\* bcrypt.compare(password, hash)
BcryptCompare(password, hash) == hash = BcryptHash(password)

\* User.findOne({ username }): the set holding the first record of that
\* username, or {}.
UserFindOne(username) ==
  LET at == { i \in DOMAIN User : User[i].username = username.text }
  IN  IF at = {} THEN {} ELSE { User[Min(at)] }

\* jwt.sign({ id, username }, SECRET_JWT_KEY, { expiresIn: '1h' })
JwtSign(username) == Token(username, SECRET_JWT_KEY, FALSE)

\* POST /register, up to `await bcrypt.hash` inside UserRepository.create: a
\* failed validation or an existing username throws, and the route answers 400.
PostRegister(username, password) ==
  /\ events < MaxEvents
  /\ events' = events + 1
  /\ LET ok == /\ ValidationUsername(username)
               /\ ValidationPassword(password)
               /\ UserFindOne(username) = {}
     IN  requests' = requests \cup
           { [ req |-> events + 1, route |-> "register", username |-> username,
               password |-> password, found |-> {},
               pc |-> IF ok THEN "hash" ELSE "done",
               res |-> IF ok THEN NoResponse ELSE Response(400, NoCookie) ] }
  /\ UNCHANGED << build, sockets, messagesCollection, index, clock, chatTasks,
                  deleteTasks, inbox, clients, User >>

\* bcrypt.hash resolves: User.create(...).save(), and the route signs the token,
\* sets the cookie and answers 201.
RegisterSave(t) ==
  /\ t \in requests /\ t.pc = "hash"
  /\ User' = Append(User, [ id |-> t.req, username |-> t.username.text,
                            password |-> BcryptHash(t.password) ])
  /\ requests' = (requests \ {t}) \cup
       { [ t EXCEPT !.pc = "done", !.res = Response(201, JwtSign(t.username.text)) ] }
  /\ UNCHANGED << build, sockets, messagesCollection, index, clock, chatTasks,
                  deleteTasks, inbox, clients, events >>

\* bcrypt.hash rejects: the route answers 400.
RegisterFail(t) ==
  /\ t \in requests /\ t.pc = "hash"
  /\ requests' = (requests \ {t}) \cup
       { [ t EXCEPT !.pc = "done", !.res = Response(400, NoCookie) ] }
  /\ UNCHANGED << build, sockets, messagesCollection, index, clock, chatTasks,
                  deleteTasks, inbox, clients, events, User >>

\* POST /login, up to `await bcrypt.compare` inside UserRepository.login: a
\* failed validation or an unknown username throws, and the route answers 401.
PostLogin(username, password) ==
  /\ events < MaxEvents
  /\ events' = events + 1
  /\ LET found == IF ValidationUsername(username) /\ ValidationPassword(password)
                  THEN UserFindOne(username) ELSE {}
     IN  requests' = requests \cup
           { [ req |-> events + 1, route |-> "login", username |-> username,
               password |-> password, found |-> found,
               pc |-> IF found # {} THEN "compare" ELSE "done",
               res |-> IF found # {} THEN NoResponse ELSE Response(401, NoCookie) ] }
  /\ UNCHANGED << build, sockets, messagesCollection, index, clock, chatTasks,
                  deleteTasks, inbox, clients, User >>

\* bcrypt.compare resolves: a match signs the token of the user found, sets the
\* cookie and answers 200; a mismatch throws, and the route answers 401.
LoginCompare(t) ==
  /\ t \in requests /\ t.pc = "compare"
  /\ LET user == CHOOSE r \in t.found : TRUE
     IN  requests' = (requests \ {t}) \cup
           { [ t EXCEPT !.pc = "done",
                        !.res = IF BcryptCompare(t.password, user.password)
                                THEN Response(200, JwtSign(user.username))
                                ELSE Response(401, NoCookie) ] }
  /\ UNCHANGED << build, sockets, messagesCollection, index, clock, chatTasks,
                  deleteTasks, inbox, clients, events, User >>

\* bcrypt.compare rejects: the route answers 401.
LoginFail(t) ==
  /\ t \in requests /\ t.pc = "compare"
  /\ requests' = (requests \ {t}) \cup
       { [ t EXCEPT !.pc = "done", !.res = Response(401, NoCookie) ] }
  /\ UNCHANGED << build, sockets, messagesCollection, index, clock, chatTasks,
                  deleteTasks, inbox, clients, events, User >>

\* ------------------------------------------------------------ specification
Next ==
  \/ \E c \in SocketIds, k \in CookieHeaders, a \in AuthUsernames,
        r \in BOOLEAN, o \in Offsets : Handshake(c, k, a, r, o)
  \/ \E c \in SocketIds : Disconnect(c)
  \/ \E c \in SocketIds, m \in Contents : ChatMessage(c, m)
  \/ \E t \in chatTasks : StorageInsert(t)
  \/ \E t \in chatTasks : StorageInsertFail(t)
  \/ \E t \in chatTasks : ChatBroadcast(t)
  \/ \E c \in SocketIds, i \in MessageIds : DeleteMessage(c, i)
  \/ \E t \in deleteTasks : DeleteLookup(t)
  \/ \E t \in deleteTasks : StorageDelete(t)
  \/ \E t \in deleteTasks : DeleteFail(t)
  \/ \E t \in deleteTasks : DeleteBroadcast(t)
  \/ \E c \in SocketIds : ReplayQuery(c)
  \/ \E c \in SocketIds : ReplayFail(c)
  \/ \E c \in SocketIds : ReplayDeliver(c)

Spec == Init /\ [][Next]_vars

SpecPart000 == InitPart000 /\ [][Next]_vars

\* src/server/index.js registers no 'delete message' handler and never reads
\* the Cookie header (one header stands for all).
NextServer ==
  \/ \E c \in SocketIds, a \in AuthUsernames, r \in BOOLEAN, o \in Offsets :
        Handshake(c, <<>>, a, r, o)
  \/ \E c \in SocketIds : Disconnect(c)
  \/ \E c \in SocketIds, m \in Contents : ChatMessage(c, m)
  \/ \E t \in chatTasks : StorageInsert(t)
  \/ \E t \in chatTasks : StorageInsertFail(t)
  \/ \E t \in chatTasks : ChatBroadcast(t)
  \/ \E c \in SocketIds : ReplayQuery(c)
  \/ \E c \in SocketIds : ReplayFail(c)
  \/ \E c \in SocketIds : ReplayDeliver(c)

SpecServer == InitServer /\ [][NextServer]_vars

\* src/index.js serving browsers that run chat.js and use the HTTP routes.
NextChatJs ==
  \/ Next
  \/ \E c \in SocketIds, u \in Users : Login(c, u)
  \/ \E c \in SocketIds : Logout(c)

SpecChatJs == InitChatJs /\ [][NextChatJs]_vars

\* ------------------------------------------------------------- HTTP pages
\* app.use(cookieParser()): req.cookies, one value per cookie name; the first
\* part of the Cookie header with a given name is the one kept.
CookieParser(cookies) ==
  [ n \in { cookies[i].name : i \in DOMAIN cookies } |->
      cookies[Min({ i \in DOMAIN cookies : cookies[i].name = n })].value ]

\* What a page route answers: res.render(view, user), res.redirect(location) or
\* res.status(403).send(...).
PageResponse(status, view, location, user) ==
  [ status |-> status, view |-> view, location |-> location, user |-> user ]

\* Mutant of HttpAuth: the token is decoded but its signature and expiry are not verified.
HttpAuth_NoVerify(cookies) ==
  LET reqCookies == CookieParser(cookies)
  IN  IF "access_token" \notin DOMAIN reqCookies
      THEN NoUser
      ELSE reqCookies["access_token"].username

\* app.use((req, res, next) => ...): req.session.user after the authentication
\* middleware; it stays null (NoUser) without a token and when jwt.verify throws.
HttpAuth(cookies) ==
  LET reqCookies == CookieParser(cookies)
  IN  IF "access_token" \notin DOMAIN reqCookies
      THEN NoUser
      ELSE LET data == JwtVerify(reqCookies["access_token"], SECRET_JWT_KEY)
           IN  IF data.ok THEN data.user ELSE NoUser

\* One GET request: the middleware chain runs, then the route answers.
PageRequest(route, cookies, res) ==
  /\ events < MaxEvents
  /\ events' = events + 1
  /\ requests' = requests \cup
       { [ req |-> events + 1, route |-> route, cookies |-> cookies,
           session |-> [ user |-> HttpAuth(cookies) ], res |-> res ] }
  /\ UNCHANGED << build, sockets, messagesCollection, index, clock, chatTasks,
                  deleteTasks, inbox, clients, User >>

\* app.get('/'): the login and register page, rendered for anyone.
GetIndex(cookies) ==
  /\ cookies \in CookieHeaders
  /\ LET user == HttpAuth(cookies)
     IN  PageRequest("/", cookies, PageResponse(200, "index", "none", user))

\* app.get('/protected').
GetProtected(cookies) ==
  LET user == HttpAuth(cookies)
  IN  IF user = NoUser
      THEN PageRequest("/protected", cookies, PageResponse(403, "none", "none", NoUser))
      ELSE PageRequest("/protected", cookies, PageResponse(200, "protected", "none", user))

\* app.get('/chat').
GetChat(cookies) ==
  LET user == HttpAuth(cookies)
  IN  IF user = NoUser
      THEN PageRequest("/chat", cookies, PageResponse(302, "none", "/", NoUser))
      ELSE PageRequest("/chat", cookies, PageResponse(200, "chat", "none", user))

\* The routes POST /register and POST /login of src/index.js.
NextUsers ==
  \/ \E u \in BodyUsernames, p \in BodyPasswords : PostRegister(u, p)
  \/ \E t \in requests : RegisterSave(t)
  \/ \E t \in requests : RegisterFail(t)
  \/ \E u \in BodyUsernames, p \in BodyPasswords : PostLogin(u, p)
  \/ \E t \in requests : LoginCompare(t)
  \/ \E t \in requests : LoginFail(t)

SpecUsers == Init /\ [][NextUsers]_vars

\* The page routes GET /, GET /protected and GET /chat of src/index.js, each
\* request carrying any Cookie header.
NextPages ==
  \/ \E cookies \in CookieHeaders : GetIndex(cookies)
  \/ \E cookies \in CookieHeaders : GetProtected(cookies)
  \/ \E cookies \in CookieHeaders : GetChat(cookies)

SpecPages == Init /\ [][NextPages]_vars

\* =================================================================== claims
Log == Range(messagesCollection)

ChatIds(c, via) ==
  { i \in DOMAIN inbox[c] : inbox[c][i].type = "chat message" /\ inbox[c][i].via = via }

\* The first access_token part of a Cookie header, as a set (empty when none).
FirstToken(cookies) ==
  { cookies[i].value : i \in { j \in DOMAIN cookies :
        /\ cookies[j].name = "access_token"
        /\ \A k \in 1..(j - 1) : cookies[k].name # "access_token" } }

\* ----------------------------------------------------------------------- C1
\* C1: when the 'delete message' handler of a requester whose bound identity
\* differs from the author of the target message (which is in the log) ends its
\* lookup, the log is unchanged, no event is emitted to any socket (so neither
\* a 'message deleted' broadcast nor anything to the requester), and the
\* request never goes on to deleteOne.
C1_NonAuthorDeleteRejected ==
  [][ \A t \in deleteTasks :
        ( /\ t.pc = "findOne"
          /\ t \notin deleteTasks'
          /\ \E m \in Log : m.id = t.messageId /\ m.user # t.user )
        => /\ messagesCollection' = messagesCollection
           /\ inbox' = inbox
           /\ \A u \in deleteTasks' : u.req = t.req => u.pc \in {"rejected", "failed"} ]_vars

\* A non-author's request has been turned down and the message is still in the
\* log, with another socket connected.
C1_Witness ==
  \E t \in deleteTasks :
    /\ t.pc = "rejected"
    /\ \E m \in Log : m.id = t.messageId /\ m.user # t.user
    /\ Open # {}

\* ----------------------------------------------------------------------- C2
\* C2: every record in the log is the record of a 'chat message' run whose
\* author is the identity the handshake middleware bound to the sending socket,
\* and that identity is a validated user.
C2_AuthorIsBoundIdentity ==
  \A r \in Log :
    \E t \in chatTasks :
      /\ t.message = r
      /\ r.user = t.identity
      /\ t.identity \in Users

\* ----------------------------------------------------------------------- C3
\* C3: every registered (open) socket presented a Cookie header whose first
\* access_token part verifies under SECRET_JWT_KEY and is bound to that token's
\* username; a rejected attempt has no recovery block, no handler and no event;
\* every handled 'chat message' and 'delete message' run belongs to a validated
\* identity.
C3_RegisteredIsValidated ==
  /\ \A c \in SocketIds :
       /\ sockets[c].state = "open" =>
            \E tok \in FirstToken(sockets[c].cookie) :
              /\ tok.key = SECRET_JWT_KEY
              /\ ~tok.expired
              /\ sockets[c].user = tok.username
              /\ sockets[c].user \in Users
       /\ sockets[c].state \in {"new", "rejected"} =>
            /\ inbox[c] = <<>>
            /\ sockets[c].replay = "none"
            /\ sockets[c].rows = <<>>
            /\ ~sockets[c].deleteHandler
  /\ \A t \in chatTasks : t.identity \in Users
  /\ \A t \in deleteTasks : t.user \in Users

\* One attempt was rejected while a broadcast reached a registered socket.
C3_Witness ==
  \E c, d \in SocketIds :
    /\ sockets[c].state = "rejected"
    /\ sockets[d].state = "open"
    /\ ChatIds(d, "io") # {}

\* ----------------------------------------------------------------------- C4
\* C4: when the handler of an appended message resumes and broadcasts, every
\* socket registered at that step (the sender too, when still registered)
\* gets exactly one more event: 'chat message' with the record's content, id,
\* author and timestamp.
C4_BroadcastReachesAll ==
  [][ \A t \in chatTasks :
        ( t.pc = "inserted" /\ t \notin chatTasks' )
        => \A c \in SocketIds :
             sockets[c].state = "open" =>
               inbox'[c] = Append(inbox[c],
                 [ type |-> "chat message", content |-> t.message.content,
                   id |-> t.message.id, user |-> t.message.user,
                   timestamp |-> t.message.timestamp, via |-> "io" ]) ]_vars

\* A non-empty message has been broadcast to two registered sockets, the sender
\* among them.
C4_Witness ==
  \E t \in chatTasks :
    /\ t.pc = "done"
    /\ t.message.content # ""
    /\ Cardinality(Open) = 2
    /\ t.socket \in Open
    /\ \A c \in Open : \E i \in ChatIds(c, "io") : inbox[c][i].id = t.message.id

\* ----------------------------------------------------------------------- C5
\* C5: in every socket's event sequence, the broadcasts appear in ascending id
\* order (no socket is delivered the broadcast of B before that of A when
\* id(A) < id(B)).
C5_BroadcastsInIdOrder ==
  \A c \in SocketIds :
    \A i, j \in ChatIds(c, "io") :
      i < j => inbox[c][i].id < inbox[c][j].id

\* ----------------------------------------------------------------------- C6
\* C6: the ids handed out are pairwise distinct (so never handed out again,
\* also after a delete), and the records of the log are in strictly increasing
\* id order in the order they were inserted.
C6_IdsUniqueAndIncreasing ==
  /\ \A t, u \in chatTasks : t.message.id = u.message.id => t = u
  /\ \A i, j \in DOMAIN messagesCollection :
       i < j => messagesCollection[i].id < messagesCollection[j].id

\* ----------------------------------------------------------------------- C7
\* C7: when the storage answers the recovery query of a socket that declared
\* offset k, the rows are exactly the log records with id > k at that step, each
\* once (the whole log for k = 0, nothing when no id exceeds k); and the events
\* the recovery block then emits to the socket are exactly those rows.
C7_ReplayIsSuffix ==
  [][ \A c \in SocketIds :
        /\ ( sockets[c].replay = "query" /\ sockets'[c].replay = "results" )
           => LET k == sockets[c].offset
                  rows == sockets'[c].rows
              IN  /\ Range(rows) = { r \in Log : r.id > k }
                  /\ Len(rows) = Cardinality(Range(rows))
                  /\ k = 0 => Range(rows) = Log
                  /\ (\A r \in Log : r.id <= k) => rows = <<>>
        /\ ( sockets[c].replay = "results" /\ sockets'[c].replay = "done" )
           => LET rows == sockets[c].rows
              IN  /\ Len(inbox'[c]) = Len(inbox[c]) + Len(rows)
                  /\ \A i \in DOMAIN rows :
                       LET ev == inbox'[c][Len(inbox[c]) + i]
                       IN  /\ ev.type = "chat message"
                           /\ ev.id = rows[i].id ]_vars

\* A socket declared the id of a record as its offset and was answered with
\* a non-empty proper part of the log.
C7_Witness ==
  \E c \in SocketIds :
    /\ sockets[c].replay = "results"
    /\ sockets[c].offset >= 1
    /\ sockets[c].rows # <<>>
    /\ \E r \in Log : r.id <= sockets[c].offset

\* ----------------------------------------------------------------------- C8
\* C8: the events the recovery block emits to a socket are in strictly
\* ascending id order.
C8_ReplayInIdOrder ==
  \A c \in SocketIds :
    \A i, j \in ChatIds(c, "socket") :
      i < j => inbox[c][i].id < inbox[c][j].id

\* ----------------------------------------------------------------------- C9
\* C9: a registered socket whose handshake was resumed has no recovery block
\* running and has been emitted no replayed event, whatever offset it declared.
C9_ResumedGetsNoReplay ==
  \A c \in SocketIds :
    ( sockets[c].state = "open" /\ sockets[c].recovered )
    => /\ ChatIds(c, "socket") = {}
       /\ sockets[c].replay = "none"
       /\ sockets[c].rows = <<>>

\* A resumed socket declared the id of a record as its offset while the log
\* holds a newer record.
C9_Witness ==
  \E c \in SocketIds :
    /\ sockets[c].state = "open"
    /\ sockets[c].recovered
    /\ sockets[c].offset >= 1
    /\ \E r \in Log : r.id > sockets[c].offset

\* ---------------------------------------------------------------------- C10
\* C10: the step in which the recovery block of one socket emits its rows
\* leaves the event sequence of every other socket unchanged.
C10_ReplayIsPrivate ==
  [][ \A c \in SocketIds :
        ( sockets[c].replay = "results" /\ sockets'[c].replay = "done" )
        => \A d \in SocketIds \ {c} : inbox'[d] = inbox[d] ]_vars

\* A socket has been replayed a message while another registered socket has
\* received no replayed event.
C10_Witness ==
  \E c, d \in SocketIds :
    /\ c # d
    /\ sockets[c].state = "open" /\ sockets[d].state = "open"
    /\ sockets[c].replay = "done"
    /\ ChatIds(c, "socket") # {}
    /\ ChatIds(d, "socket") = {}

\* Positions of the 'message deleted' events for id i in a sequence of events.
DeletedAt(evs, i) ==
  { k \in DOMAIN evs : evs[k].type = "message deleted" /\ evs[k].id = i }

\* Positions of the 'chat message' events (broadcast or replayed) for id i.
ChatAt(evs, i) ==
  { k \in DOMAIN evs : evs[k].type = "chat message" /\ evs[k].id = i }

\* ---------------------------------------------------------------------- C11
\* C11: of two delete requests for a message, the second arriving after the
\* first has run to its end: the first's deleteOne leaves the log without the
\* message and its broadcast adds exactly one 'message deleted' event for the
\* id to every registered socket; the second's lookup leaves the log and every
\* socket's events unchanged and the request ends without deleteOne.
C11_SecondDeleteIsNoOp ==
  [][ \A t \in deleteTasks :
        /\ ( t.pc = "deleteOne" /\ ~t.afterDone /\ t \notin deleteTasks'
             /\ [ t EXCEPT !.pc = "deleted" ] \in deleteTasks' )
           => \A r \in Range(messagesCollection') : r.id # t.messageId
        /\ ( t.pc = "deleted" /\ ~t.afterDone /\ t \notin deleteTasks' )
           => \A c \in Open :
                Cardinality(DeletedAt(inbox'[c], t.messageId))
                  = Cardinality(DeletedAt(inbox[c], t.messageId)) + 1
        /\ ( t.pc = "findOne" /\ t.afterDone /\ t \notin deleteTasks' )
           => /\ messagesCollection' = messagesCollection
              /\ inbox' = inbox
              /\ \A u \in deleteTasks' :
                   u.req = t.req => u.pc \in {"rejected", "failed"} ]_vars

\* The author's first request ran to its end, the second arrived afterwards and
\* was turned down, and a registered socket holds one 'message deleted' event.
C11_Witness ==
  \E t, u \in deleteTasks :
    /\ t.pc = "done" /\ ~t.afterDone
    /\ u.pc = "rejected" /\ u.afterDone
    /\ u.messageId = t.messageId /\ u.user = t.user
    /\ \A r \in Log : r.id # t.messageId
    /\ \E c \in Open : Cardinality(DeletedAt(inbox[c], t.messageId)) = 1

\* ---------------------------------------------------------------------- C12
\* C12: for every message id, at most one delete request runs to its
\* broadcast, and no socket is delivered 'message deleted' for the id more
\* than once.
C12_OneDeleteSucceeds ==
  \A i \in 1..index :
    /\ Cardinality({ t \in deleteTasks : t.messageId = i /\ t.pc = "done" }) <= 1
    /\ \A c \in SocketIds : Cardinality(DeletedAt(inbox[c], i)) <= 1

\* ---------------------------------------------------------------------- C13
\* C13: a lookup that finds the message with the requester as its author goes
\* on to deleteOne (unless the storage fails); at the broadcast step the message
\* is no longer in the log, and every socket registered at that step gets
\* exactly one more event, 'message deleted' carrying the id and nothing else.
C13_DeleteThenBroadcast ==
  [][ \A t \in deleteTasks :
        /\ ( /\ t.pc = "findOne" /\ t \notin deleteTasks'
             /\ \E m \in Log : m.id = t.messageId /\ m.user = t.user )
           => \E u \in deleteTasks' : u.req = t.req /\ u.pc \in {"deleteOne", "failed"}
        /\ ( t.pc = "deleted" /\ t \notin deleteTasks' )
           => /\ \A m \in Log : m.id # t.messageId
              /\ \A c \in SocketIds :
                   inbox'[c] =
                     IF sockets[c].state = "open"
                     THEN Append(inbox[c],
                            [ type |-> "message deleted", content |-> "", id |-> t.messageId,
                              user |-> NoUser, timestamp |-> NoTime, via |-> "io" ])
                     ELSE inbox[c] ]_vars

\* The author's request ran to its end with two sockets registered, both of
\* which hold the 'message deleted' event.
C13_Witness ==
  \E t \in deleteTasks :
    /\ t.pc = "done"
    /\ \E m \in chatTasks : m.message.id = t.messageId /\ m.message.user = t.user
    /\ Cardinality(Open) = 2
    /\ \A c \in Open : DeletedAt(inbox[c], t.messageId) # {}

\* ---------------------------------------------------------------------- C14
\* C14: a lookup for an id that is not in the log leaves the log and every
\* socket's events unchanged and ends the request; a request with a malformed
\* id ends at once, with the log and every socket's events unchanged.
C14_MissingTargetIsNoOp ==
  [][ /\ \A t \in deleteTasks :
           ( /\ t.pc = "findOne" /\ t \notin deleteTasks'
             /\ \A m \in Log : m.id # t.messageId )
           => /\ messagesCollection' = messagesCollection
              /\ inbox' = inbox
              /\ \A u \in deleteTasks' :
                   u.req = t.req => u.pc \in {"rejected", "failed"}
      /\ \A u \in deleteTasks' \ deleteTasks :
           ( u.req > events /\ u.messageId = BadId )
           => /\ u.pc = "failed"
              /\ messagesCollection' = messagesCollection
              /\ inbox' = inbox ]_vars

\* One request named an id whose insert never reached the log, another an id
\* that is no ObjectId; both ended with a socket registered.
C14_Witness ==
  \E t, u \in deleteTasks :
    /\ t.pc = "rejected"
    /\ \E m \in chatTasks : m.message.id = t.messageId /\ m.pc = "failed"
    /\ u.pc = "failed" /\ u.messageId = BadId
    /\ Open # {}

\* ---------------------------------------------------------------------- C15
\* C15: the message of a 'chat message' run whose insertOne failed is not in the
\* log, no socket holds a 'chat message' event for it, and no other run carries
\* its id (the append is not taken up again).
C15_FailedAppendIsDropped ==
  \A t \in chatTasks :
    t.pc = "failed" =>
      /\ \A r \in Log : r.id # t.message.id
      /\ \A c \in SocketIds : ChatAt(inbox[c], t.message.id) = {}
      /\ \A u \in chatTasks : u.message.id = t.message.id => u = t

\* An insert failed while its sender and another socket stayed registered, and
\* a later message was broadcast to both.
C15_Witness ==
  \E t, u \in chatTasks :
    /\ t.pc = "failed" /\ t.message.content # ""
    /\ u.pc = "done" /\ u.message.id > t.message.id
    /\ t.socket \in Open
    /\ Cardinality(Open) = 2
    /\ \A c \in Open : ChatAt(inbox[c], u.message.id) # {}

\* ---------------------------------------------------------------------- C16
\* C16: no record of the log has empty content, and no socket is delivered a
\* 'chat message' event with empty content.
C16_NoEmptyContent ==
  /\ \A r \in Log : r.content # ""
  /\ \A c \in SocketIds : \A k \in DOMAIN inbox[c] :
       inbox[c][k].type = "chat message" => inbox[c][k].content # ""

\* ---------------------------------------------------------------------- C18
\* C18: in the events emitted to one connection, broadcast and replay together,
\* no message id appears in more than one 'chat message' event.
C18_NoDuplicateDelivery ==
  \A c \in SocketIds : \A i \in 1..index :
    Cardinality(ChatAt(inbox[c], i)) <= 1

\* ---------------------------------------------------------------------- C17
\* C17: for a chat.js client whose socket is registered by a fresh handshake
\* and whose recovery block has emitted its rows, once no append is in flight
\* every record of the log has been received by the client, now or during an
\* earlier connection.
C17_ReconnectRecoversAll ==
  \A c \in SocketIds :
    ( /\ clients[c].tracked
      /\ sockets[c].state = "open" /\ ~sockets[c].recovered
      /\ sockets[c].replay = "done"
      /\ \A t \in chatTasks : t.pc \notin {"insertOne", "inserted"} )
    => \A r \in Log : r.id \in clients[c].seen

\* ---------------------------------------------------------------------- C19
\* C19: a step in which an insertOne, findOne, deleteOne or recovery query
\* fails, or in which a malformed id or offset is received, emits no event to
\* any socket, closes no socket and leaves every other handler run as it was;
\* the only events ever emitted are 'chat message' and 'message deleted'; and
\* every registered socket keeps its handlers.
C19_FailuresContained ==
  [][ /\ \A t \in chatTasks :
           ( t.pc = "insertOne" /\ [ t EXCEPT !.pc = "failed" ] \in chatTasks' )
           => /\ inbox' = inbox /\ sockets' = sockets
              /\ chatTasks' \ { [ t EXCEPT !.pc = "failed" ] } = chatTasks \ {t}
              /\ deleteTasks' = deleteTasks
      /\ \A t \in deleteTasks :
           ( t.pc \in {"findOne", "deleteOne"} /\ [ t EXCEPT !.pc = "failed" ] \in deleteTasks' )
           => /\ inbox' = inbox /\ sockets' = sockets
              /\ deleteTasks' \ { [ t EXCEPT !.pc = "failed" ] } = deleteTasks \ {t}
              /\ chatTasks' = chatTasks
      /\ \A u \in deleteTasks' \ deleteTasks :
           ( u.req > events /\ u.messageId = BadId )
           => /\ inbox' = inbox /\ sockets' = sockets
              /\ deleteTasks' \ {u} = deleteTasks
              /\ chatTasks' = chatTasks
      /\ \A c \in SocketIds :
           ( sockets[c].replay = "query" /\ sockets'[c].replay = "failed" )
           => /\ inbox' = inbox
              /\ sockets'[c].state = "open"
              /\ \A d \in SocketIds \ {c} : sockets'[d] = sockets[d]
              /\ chatTasks' = chatTasks /\ deleteTasks' = deleteTasks
      /\ \A c \in SocketIds :
           ( sockets[c].state # "open" /\ sockets'[c].state = "open"
             /\ sockets'[c].offset = BadId /\ ~sockets'[c].recovered )
           => /\ sockets'[c].replay = "failed"
              /\ \A d \in SocketIds \ {c} : sockets'[d] = sockets[d] /\ inbox'[d] = inbox[d]
              /\ chatTasks' = chatTasks /\ deleteTasks' = deleteTasks
      /\ \A c \in SocketIds :
           /\ \A k \in DOMAIN inbox'[c] :
                inbox'[c][k].type \in {"chat message", "message deleted"}
           /\ sockets'[c].state = "open" => sockets'[c].deleteHandler ]_vars

\* A socket's recovery query and its first insert failed; the socket stayed
\* registered, its next message was stored and broadcast to it, and its delete
\* request with a malformed id ended without effect.
C19_Witness ==
  \E c \in Open :
    /\ sockets[c].replay = "failed"
    /\ \E t, u \in chatTasks :
         /\ t.socket = c /\ t.pc = "failed"
         /\ u.socket = c /\ u.pc = "done" /\ u.message.id > t.message.id
         /\ ChatAt(inbox[c], u.message.id) # {}
    /\ \E d \in deleteTasks : d.messageId = BadId /\ d.pc = "failed"

\* ---------------------------------------------------------------------- C20
\* C20: the identity of a socket is the one io.use reads from the Cookie header
\* of its handshake; while the socket stays registered it is the same after
\* every step (a message, a delete, a login or logout of its browser, any
\* step of another socket), and every handler run the socket starts carries it.
C20_IdentityImmutable ==
  [][ /\ \A c \in SocketIds :
           /\ ( sockets[c].state = "open" /\ sockets'[c].state = "open" )
              => sockets'[c].user = sockets[c].user
           /\ ( sockets[c].state # "open" /\ sockets'[c].state = "open" )
              => /\ clients[c].tracked => sockets'[c].cookie = clients[c].jar
                 /\ \E tok \in FirstToken(sockets'[c].cookie) :
                      sockets'[c].user = tok.username
      /\ \A t \in chatTasks' \ chatTasks :
           t.message.id > index
           => /\ t.identity = sockets[t.socket].user
              /\ t.message.user = sockets[t.socket].user
              /\ t.identity \in Users
      /\ \A t \in deleteTasks' \ deleteTasks :
           t.req > events
           => \E c \in Open : t.user = sockets[c].user /\ t.user \in Users ]_vars

\* A socket is registered under one user while its browser's jar, after a login
\* or logout, no longer holds the cookie of the handshake; a message of the
\* socket is in the log under the socket's identity.
C20_Witness ==
  \E c \in Open :
    /\ clients[c].tracked
    /\ clients[c].jar # sockets[c].cookie
    /\ \E t \in chatTasks :
         /\ t.socket = c /\ t.pc = "done"
         /\ t.message \in Log
         /\ t.message.user = sockets[c].user

\* ---------------------------------------------------------------------- C21
\* C21: in every step, a record that is in the log before and whose id is in
\* the log after is the same record after; and the log after the step is the
\* log before, or the log before with the record of a pending insertOne
\* appended under an id not in the log, or the log before without the record
\* of a pending deleteOne.
C21_NoUpdateInPlace ==
  [][ /\ \A r \in Log : \A q \in Range(messagesCollection') : q.id = r.id => q = r
      /\ \/ messagesCollection' = messagesCollection
         \/ \E t \in chatTasks :
              /\ t.pc = "insertOne"
              /\ \A r \in Log : r.id # t.message.id
              /\ messagesCollection' = Append(messagesCollection, t.message)
         \/ \E t \in deleteTasks :
              /\ t.pc = "deleteOne"
              /\ messagesCollection' =
                   SelectSeq(messagesCollection, LAMBDA r : r.id # t.messageId) ]_vars

\* A record is in the log as its handler built it, after a later message was
\* appended and deleted again.
C21_Witness ==
  \E t \in chatTasks : \E d \in deleteTasks :
    /\ t.pc = "done" /\ t.message \in Log
    /\ d.pc = "done" /\ d.messageId > t.message.id
    /\ \A r \in Log : r.id # d.messageId

\* ---------------------------------------------------------------------- C23
\* C23: every 'chat message' event emitted to a socket, by broadcast or by
\* replay, carries the content, id, author and timestamp of the record its
\* handler stored; it equals the record of that id in the log, and any two
\* events of one id carry the same four fields.
C23_ReplayEqualsBroadcast ==
  \A c \in SocketIds : \A k \in DOMAIN inbox[c] :
    LET e == inbox[c][k]
    IN  e.type = "chat message" =>
          /\ \E t \in chatTasks :
               /\ t.message.id = e.id
               /\ t.message.content = e.content
               /\ t.message.user = e.user
               /\ t.message.timestamp = e.timestamp
          /\ \A r \in Log :
               r.id = e.id =>
                 r.content = e.content /\ r.user = e.user /\ r.timestamp = e.timestamp
          /\ \A d \in SocketIds : \A j \in ChatAt(inbox[d], e.id) :
               /\ inbox[d][j].content = e.content
               /\ inbox[d][j].user = e.user
               /\ inbox[d][j].timestamp = e.timestamp

\* One message, still in the log, has reached one socket by broadcast and
\* another by replay.
C23_Witness ==
  \E c, d \in SocketIds : \E r \in Log :
    /\ c # d
    /\ r.content # ""
    /\ \E k \in ChatAt(inbox[c], r.id) : inbox[c][k].via = "io"
    /\ \E k \in ChatAt(inbox[d], r.id) : inbox[d][k].via = "socket"

\* ---------------------------------------------------------------------- C24
\* C24: in the events emitted to one connection, no 'chat message' event for
\* an id comes after a 'message deleted' event for that id.
C24_NoChatAfterDeleted ==
  \A c \in SocketIds : \A i \in 1..index :
    \A k \in DeletedAt(inbox[c], i) : \A j \in ChatAt(inbox[c], i) : j < k

C25_OffsetIsGreatestSeen ==
  \A c \in SocketIds :
    ( clients[c].tracked /\ clients[c].seen # {} )
    => /\ clients[c].serverOffset \in clients[c].seen
       /\ \A i \in clients[c].seen : i <= clients[c].serverOffset

\* ---------------------------------------------------------------------- C26
\* C26: for a chat.js client registered by a fresh handshake whose recovery
\* block has emitted its rows, once no handler run is in flight, every message
\* that was on its page when it reconnected and whose 'message deleted' event
\* never reached it (so it was deleted while the client was away) is either in
\* the log or no longer on the page.
C26_ViewWithinLog ==
  \A c \in SocketIds :
    ( /\ clients[c].tracked
      /\ sockets[c].state = "open" /\ ~sockets[c].recovered
      /\ sockets[c].replay = "done"
      /\ \A t \in chatTasks : t.pc \notin {"insertOne", "inserted"}
      /\ \A t \in deleteTasks : t.pc \notin {"findOne", "deleteOne", "deleted"} )
    => \A i \in (sockets[c].had \cap clients[c].seen) \ clients[c].gone :
         \E r \in Log : r.id = i

\* ---------------------------------------------------------------------- C27
\* C27: no 'delete message' event sent by a registered connection is dropped
\* for want of a listener (the 'chat message' listener is registered in the
\* synchronous part of the connection callback in every build).
C27_EveryEventHandled ==
  \A t \in deleteTasks : t.pc # "unhandled"

\* ---------------------------------------------------------------------- C28
\* C28: no two records of the user store have the same username.
C28_UsernamesUnique ==
  \A i, j \in DOMAIN User : User[i].username = User[j].username => i = j

\* ---------------------------------------------------------------------- C29
\* C29: a POST /register whose username is not a string of at least 3
\* characters, whose password is not a string of at least 6 characters, or
\* whose username is in the user store when the request arrives, ends at once
\* with status 400 and no cookie, the user store unchanged; and a register
\* request answered 400 has stored no record and set no cookie.
C29_RegisterRejects ==
  [][ /\ \A t \in requests' \ requests :
           ( /\ t.route = "register" /\ t.req > events
             /\ \/ t.username.kind # "string"
                \/ Len(t.username.text) < 3
                \/ t.password.kind # "string"
                \/ Len(t.password.text) < 6
                \/ \E r \in Range(User) : r.username = t.username.text )
           => /\ t.pc = "done"
              /\ t.res.status = 400
              /\ t.res.cookie.key = "none"
              /\ User' = User
      /\ \A t \in requests' :
           ( t.route = "register" /\ t.res.status = 400 )
           => /\ t.res.cookie.key = "none"
              /\ \A r \in Range(User') : r.id # t.req ]_vars

\* With one user registered, three register requests were answered 400: one
\* for a short username, one for a short password, one for the registered name.
C29_Witness ==
  /\ Len(User) = 1
  /\ \E a, b, c \in requests :
       /\ a.route = "register" /\ b.route = "register" /\ c.route = "register"
       /\ a.res.status = 400 /\ b.res.status = 400 /\ c.res.status = 400
       /\ a.username = Str("al") /\ a.password = Str("secret")
       /\ b.username = Str("bob") /\ b.password = Str("12345")
       /\ c.username = Str(User[1].username) /\ c.password = Str("secret")
       /\ c.req > User[1].id

\* ---------------------------------------------------------------------- C30
\* C30: an ended POST /login answers 200 or 401; a 401 carries no cookie; a 200
\* carries a token signed with SECRET_JWT_KEY for a user of the store whose
\* username is the one requested and whose stored hash is the hash of the
\* password presented; and no step of a login request changes the user store.
C30_LoginIssuesCookie ==
  [][ /\ \A t \in requests' :
           ( t.route = "login" /\ t.pc = "done" )
           => /\ t.res.status \in {200, 401}
              /\ t.res.status = 401 => t.res.cookie.key = "none"
              /\ t.res.status = 200 =>
                   \E r \in Range(User') :
                     /\ r.username = t.username.text
                     /\ r.password = [ bcrypt |-> t.password.text ]
                     /\ t.res.cookie =
                          [ username |-> r.username, key |-> SECRET_JWT_KEY,
                            expired |-> FALSE ]
      /\ ( \E t \in requests' : t.route = "login" /\ t \notin requests )
         => User' = User ]_vars

\* Bob is registered; one login with his password was answered 200 with his
\* token, one with another password 401, and one for an unknown user 401.
C30_Witness ==
  \E a, b, c \in requests :
    /\ a.route = "login" /\ b.route = "login" /\ c.route = "login"
    /\ a.username = Str("bob") /\ a.res.status = 200 /\ a.res.cookie.username = "bob"
    /\ b.username = Str("bob") /\ b.password = Str("hunter22") /\ b.res.status = 401
    /\ b.found # {}
    /\ c.username = Str("alice") /\ c.password = Str("secret") /\ c.res.status = 401

\* ---------------------------------------------------------------------- C31
\* C31: for every page request, req.session.user is set only if the
\* access_token cookie of the request carries a token that verifies under
\* SECRET_JWT_KEY (and it is then that token's user); GET /chat renders the
\* chat exactly in that case and otherwise redirects to '/', and GET
\* /protected answers 403 with no page whenever no such token is carried.
C31_SessionNeedsVerifiedToken ==
  \A t \in requests :
    LET verified == { tok \in FirstToken(t.cookies) :
                        tok.key = SECRET_JWT_KEY /\ ~tok.expired }
    IN  /\ t.session.user # NoUser =>
              \E tok \in verified : t.session.user = tok.username
        /\ t.route = "/chat" =>
              IF verified # {}
              THEN /\ t.res.status = 200 /\ t.res.view = "chat"
                   /\ \E tok \in verified : t.res.user = tok.username
              ELSE /\ t.res.status = 302 /\ t.res.location = "/"
                   /\ t.res.view = "none"
        /\ (t.route = "/protected" /\ verified = {}) =>
              t.res.status = 403 /\ t.res.view = "none"

\* A chat page rendered for alice's valid token, a GET /chat with a token
\* signed under another key redirected to '/', and a GET /protected with an
\* expired token answered 403.
C31_Witness ==
  /\ \E t \in requests :
        /\ t.route = "/chat" /\ t.res.view = "chat" /\ t.res.user = "alice"
        /\ t.cookies = << Cookie("access_token", Token("alice", SECRET_JWT_KEY, FALSE)) >>
  /\ \E t \in requests :
        /\ t.route = "/chat" /\ t.res.status = 302
        /\ t.cookies = << Cookie("access_token", Token("alice", OtherKey, FALSE)) >>
  /\ \E t \in requests :
        /\ t.route = "/protected" /\ t.res.status = 403
        /\ t.cookies = << Cookie("access_token", Token("bob", SECRET_JWT_KEY, TRUE)) >>

====
